---- MODULE Spec2Model ----
(***************************************************************************)
(* A model of the Modbus-to-MQTT adapter: the numeric conversions and the  *)
(* struct decoder of conversions.py, the layout of config.py and the read  *)
(* loop of main.py.                                                        *)
(*                                                                         *)
(* Python integers are unbounded; a 32-bit quantity does not fit TLC's     *)
(* integers, so a non-negative Python int is kept as its little-endian     *)
(* sequence of 16-bit limbs without leading zero limbs (0 is <<>>).        *)
(* A float is kept as the IEEE-754 fields of the 4 bytes struct.unpack     *)
(* reinterprets.  A raised exception is a value of kind "error".           *)
(***************************************************************************)
EXTENDS Integers, Sequences, FiniteSets, TLC

VARIABLES
    pc,             \* position of the running program / driver
    responseData,   \* argument of a conversion function
    converter,      \* the conversion function applied to responseData
    value,          \* what the conversion returned (or raised)
    registers,      \* argument of convert_single_struct
    result,         \* what convert_single_struct returned (or raised)
    modules,        \* args.modules
    modbusConnected,\* main.py: PLC connection state
    attempt,        \* main.py: the i of the read/retry loop
    response,       \* main.py: the last Modbus response
    dataset,        \* main.py: the shared dataset (timestamp, results)
    published,      \* the last message handed to mqttClient.publish
    now,            \* time()
    startTime,      \* main.py: startTime of the running cycle
    timeA,          \* main.py: time before the last read
    timeB,          \* main.py: time after the last read
    cycle,          \* number of the running cycle (history)
    reads,          \* reads issued in the running cycle (history)
    okReads,        \* non-error responses received in the running cycle (history)
    pubs,           \* messages published in the running cycle (history)
    totalPubs,      \* messages published so far (history)
    connects,       \* connect() calls of the running cycle (history)
    log             \* messages logged at warning level or above, in order

vars == <<pc, responseData, converter, value, registers, result, modules,
          modbusConnected, attempt, response, dataset, published, now,
          startTime, timeA, timeB, cycle, reads, okReads, pubs, totalPubs,
          connects, log>>

convVars == <<responseData, converter, value>>
decodeVars == <<registers, result>>
loopVars == <<modules, modbusConnected, attempt, response, dataset, published,
              now, startTime, timeA, timeB, cycle, reads, okReads, pubs,
              totalPubs, connects, log>>

(***************************************************************************)
(* Bounds of the model.                                                    *)
(***************************************************************************)
MaxSliceLen == 3    \* longest slice handed to a conversion function
MaxExtra == 1       \* words a buffer may have beyond the struct size
MaxModules == 2     \* largest args.modules
MaxCycles == 3      \* poll cycles explored

(***************************************************************************)
(* Program constants.                                                      *)
(***************************************************************************)
WordBase == 65536   \* 2^16: a Modbus register is a 16-bit word
ShiftBits == 16     \* the << 16 of the two-word conversions
HexLen == 8         \* hex digits of 4 bytes
STRUCT_SIZE == 24
DATA_SIZE == 24

Min(a, b) == IF a < b THEN a ELSE b
Max(a, b) == IF a > b THEN a ELSE b

(***************************************************************************)
(* Python values.                                                          *)
(***************************************************************************)
Raise(exc) == [kind |-> "error", exc |-> exc]
IsError(v) == v.kind = "error"
PyIntValue(limbs) == [kind |-> "int", limbs |-> limbs]
PyFloat(sign, exponent, fraction) ==
    [kind |-> "float", sign |-> sign, exponent |-> exponent, fraction |-> fraction]
PyList(items) == [kind |-> "list", items |-> items]
None == [kind |-> "none"]

(***************************************************************************)
(* Python int arithmetic on limbs.                                         *)
(***************************************************************************)
RECURSIVE Normalize(_)
Normalize(limbs) ==
    IF limbs = <<>> THEN <<>>
    ELSE IF limbs[Len(limbs)] = 0 THEN Normalize(SubSeq(limbs, 1, Len(limbs) - 1))
    ELSE limbs

\* int(word): the Python int of one register
FromWord(w) == Normalize(<<w>>)

\* x << n for n a multiple of 16 bits: whole limbs are shifted in
ShiftLeft(x, n) ==
    IF x = <<>> THEN <<>>
    ELSE [i \in 1..(n \div ShiftBits) |-> 0] \o x

RECURSIVE BitOr(_, _)
BitOr(a, b) ==
    IF a = 0 THEN b
    ELSE IF b = 0 THEN a
    ELSE (IF a % 2 = 1 \/ b % 2 = 1 THEN 1 ELSE 0) + 2 * BitOr(a \div 2, b \div 2)

Limb(x, i) == IF i <= Len(x) THEN x[i] ELSE 0

\* x | y
IntOr(x, y) ==
    Normalize([i \in 1..Max(Len(x), Len(y)) |-> BitOr(Limb(x, i), Limb(y, i))])

(***************************************************************************)
(* List slicing and range().                                               *)
(***************************************************************************)
\* seq[a:b] for 0 <= a, 0 <= b: clipped to the list, never an error
PySlice(seq, a, b) == SubSeq(seq, a + 1, Min(b, Len(seq)))

\* seq[i]: IndexError outside the list
HasIndex(seq, i) == i >= 0 /\ i < Len(seq)

\* range() with the step left out
PyRange_UnitStep(start, stop, step) ==
    IF stop <= start THEN <<>>
    ELSE [k \in 1..(stop - start) |-> start + (k - 1)]

\* range(start, stop, step) for step > 0
PyRange(start, stop, step) ==
    IF stop <= start THEN <<>>
    ELSE [k \in 1..((stop - start + step - 1) \div step) |-> start + (k - 1) * step]

(***************************************************************************)
(* hex(), bytes.fromhex() and struct.unpack(">f", ...).                    *)
(***************************************************************************)
RECURSIVE StripZeros(_)
StripZeros(digits) ==
    IF Len(digits) > 1 /\ digits[1] = 0 THEN StripZeros(Tail(digits)) ELSE digits

LimbDigits(w) == <<w \div 4096, (w \div 256) % 16, (w \div 16) % 16, w % 16>>

RECURSIVE AllDigits(_)
AllDigits(limbs) ==
    IF limbs = <<>> THEN <<>>
    ELSE LimbDigits(limbs[Len(limbs)]) \o AllDigits(SubSeq(limbs, 1, Len(limbs) - 1))

\* hex(x)[2:]: the hex digits of x, most significant first, "0" for 0
HexDigits(x) == IF x = <<>> THEN <<0>> ELSE StripZeros(AllDigits(x))

\* "0" * (8 - len(hexStr)) + hexStr when len(hexStr) < 8
PadHex(hexStr) ==
    IF Len(hexStr) < HexLen
    THEN [i \in 1..(HexLen - Len(hexStr)) |-> 0] \o hexStr
    ELSE hexStr

\* bytes.fromhex(hexStr): ValueError for an odd number of digits
FromHex(hexStr) ==
    IF Len(hexStr) % 2 = 1 THEN Raise("ValueError")
    ELSE [kind |-> "bytes",
          bytes |-> [i \in 1..(Len(hexStr) \div 2) |->
                        16 * hexStr[2 * i - 1] + hexStr[2 * i]]]

\* struct.unpack(">f", b)[0]: the 4 bytes reinterpreted as a big-endian float
UnpackFloat(b) ==
    IF IsError(b) THEN b
    ELSE IF Len(b.bytes) # 4 THEN Raise("struct.error")
    ELSE PyFloat(b.bytes[1] \div 128,
                 (b.bytes[1] % 128) * 2 + b.bytes[2] \div 128,
                 (b.bytes[2] % 128) * WordBase + b.bytes[3] * 256 + b.bytes[4])

(***************************************************************************)
(* The conversion functions of conversions.py.                             *)
(***************************************************************************)
\* responseData[0] << 16 | responseData[1]: the first word taken as the high half
AssembleWords_BigEndian(rd) ==
    IntOr(ShiftLeft(FromWord(rd[1]), ShiftBits), FromWord(rd[2]))

\* responseData[1] << 16 | responseData[0]
AssembleWords(rd) == IntOr(ShiftLeft(FromWord(rd[2]), ShiftBits), FromWord(rd[1]))

\* responseData[-1] << 16 | responseData[-2]: the words counted from the end
convert_timestamp_FromEnd(rd) ==
    IF Len(rd) < 2 THEN Raise("IndexError")
    ELSE PyIntValue(IntOr(ShiftLeft(FromWord(rd[Len(rd)]), ShiftBits),
                          FromWord(rd[Len(rd) - 1])))

convert_timestamp(rd) ==
    IF ~HasIndex(rd, 1) THEN Raise("IndexError")
    ELSE PyIntValue(AssembleWords(rd))

\* a missing high word taken as 0 instead of an IndexError
convert_real_Padded(rd) ==
    IF ~HasIndex(rd, 0) THEN Raise("IndexError")
    ELSE UnpackFloat(FromHex(PadHex(HexDigits(
             IntOr(ShiftLeft(FromWord(Limb(rd, 2)), ShiftBits), FromWord(rd[1]))))))

convert_real(rd) ==
    IF ~HasIndex(rd, 1) THEN Raise("IndexError")
    ELSE UnpackFloat(FromHex(PadHex(HexDigits(AssembleWords(rd)))))

\* lambda x: x[0]
convert_word(rd) ==
    IF ~HasIndex(rd, 0) THEN Raise("IndexError")
    ELSE PyIntValue(FromWord(rd[1]))

Apply(conv, rd) ==
    CASE conv = "convert_timestamp" -> convert_timestamp(rd)
      [] conv = "convert_real" -> convert_real(rd)
      [] conv = "convert_word" -> convert_word(rd)

StructEntry(name, position, wordsize, count, conv) ==
    [name |-> name, position |-> position, wordsize |-> wordsize,
     count |-> count, converter |-> conv]

STRUCT_CONTENTS ==
    << StructEntry("timestamp", 0, 2, 1, "convert_timestamp"),
       StructEntry("busIndex", 2, 1, 1, "convert_word"),
       StructEntry("voltage", 4, 2, 3, "convert_real"),
       StructEntry("current", 10, 2, 3, "convert_real"),
       StructEntry("power", 16, 2, 3, "convert_real"),
       StructEntry("energy", 22, 2, 1, "convert_real") >>

DATA_LAYOUT ==
    << StructEntry("timestamp", 0, 2, 1, "convert_timestamp"),
       StructEntry("busIndex", 2, 1, 1, "convert_word"),
       StructEntry("voltage", 4, 2, 3, "convert_real"),
       StructEntry("current", 10, 2, 3, "convert_real"),
       StructEntry("power", 16, 2, 3, "convert_real"),
       StructEntry("energy", 22, 2, 1, "convert_real") >>

(***************************************************************************)
(* A dict is the sequence of its items in insertion order.                 *)
(***************************************************************************)
Item(key, val) == [key |-> key, val |-> val]
Keys(d) == [i \in 1..Len(d) |-> d[i].key]
HasKey(d, key) == \E i \in 1..Len(d) : d[i].key = key
Get(d, key) == d[CHOOSE i \in 1..Len(d) : d[i].key = key].val

\* d[key] = val: a present key keeps its place, a new one goes last
DictSet(d, key, val) ==
    IF HasKey(d, key)
    THEN [i \in 1..Len(d) |-> IF d[i].key = key THEN Item(key, val) ELSE d[i]]
    ELSE Append(d, Item(key, val))

\* list(map(converter, slices)): the first exception ends the map
RECURSIVE MapConverter(_, _, _)
MapConverter(conv, slices, done) ==
    IF slices = <<>> THEN PyList(done)
    ELSE LET v == Apply(conv, Head(slices))
         IN IF IsError(v) THEN v
            ELSE MapConverter(conv, Tail(slices), Append(done, v))

\* the slices of a repeated entry
EntrySlices(regs, entry) ==
    LET starts == PyRange(entry.position,
                          entry.position + entry.wordsize * entry.count,
                          entry.wordsize)
    IN [k \in 1..Len(starts) |-> PySlice(regs, starts[k], starts[k] + entry.wordsize)]

\* every entry converted as a single value
EntryValue_NoList(regs, entry) ==
    Apply(entry.converter,
          PySlice(regs, entry.position, entry.position + entry.wordsize))

\* the value of one entry
EntryValue(regs, entry) ==
    IF entry.count = 1
    THEN Apply(entry.converter,
               PySlice(regs, entry.position, entry.position + entry.wordsize))
    ELSE MapConverter(entry.converter, EntrySlices(regs, entry), <<>>)

RECURSIVE ConvertEntries(_, _, _)
ConvertEntries(regs, entries, acc) ==
    IF entries = <<>> THEN [kind |-> "dict", items |-> acc]
    ELSE LET v == EntryValue(regs, Head(entries))
         IN IF IsError(v) THEN v
            ELSE ConvertEntries(regs, Tail(entries), DictSet(acc, Head(entries).name, v))

convert_single_module(regs, layout) == ConvertEntries(regs, layout, <<>>)

convert_single_struct(regs) == convert_single_module(regs, STRUCT_CONTENTS)

(***************************************************************************)
(* The test server's encoding (src/test/server.py):                        *)
(* long_list_to_word(values, big_endian=False) splits each 32-bit value    *)
(* into [value & 0xffff, (value >> 16) & 0xffff].                          *)
(***************************************************************************)
LongToWords(v) == <<Limb(v, 1), Limb(v, 2)>>

(***************************************************************************)
(* Inputs explored.                                                        *)
(***************************************************************************)
\* 0x07AE and 0x4366 are the two words of 230.03f, the test server's first value
WordSamples == {0, 1, 15, 16, 1966, 4096, 17254, 32767, 32768, 65535}
PokeSamples == {0, 32768, 65535}
\* register patterns the PLC may answer with
Seeds == {1, 2}

RECURSIVE SeqsOfLen(_, _)
SeqsOfLen(S, n) ==
    IF n = 0 THEN {<<>>}
    ELSE {Append(q, x) : q \in SeqsOfLen(S, n - 1), x \in S}

Slices == UNION {SeqsOfLen(WordSamples, n) : n \in 0..MaxSliceLen}

\* register i (from 0) of pattern seed: every position of a module differs
PatternWord(seed, i) == ((seed - 1) * 17254 + 257 * i + 1) % WordBase
Pattern(seed, len) == [i \in 1..len |-> PatternWord(seed, i - 1)]
Poke(buf, p, v) == [i \in 1..Len(buf) |-> IF i = p THEN v ELSE buf[i]]

Buffers ==
    {Poke(Pattern(seed, len), p, v) :
        seed \in Seeds, len \in 0..(STRUCT_SIZE + MaxExtra),
        p \in 0..(STRUCT_SIZE + MaxExtra), v \in PokeSamples}

(***************************************************************************)
(* States of the parts a specification leaves alone.                       *)
(***************************************************************************)
ConvIdle == responseData = <<>> /\ converter = "none" /\ value = None
DecodeIdle == registers = <<>> /\ result = None
LoopIdle ==
    /\ modules = 0
    /\ modbusConnected = TRUE
    /\ attempt = 0
    /\ response = None
    /\ dataset = [device |-> "plc", timestamp |-> 0, results |-> <<>>]
    /\ published = None
    /\ now = 0
    /\ startTime = 0
    /\ timeA = 0
    /\ timeB = 0
    /\ cycle = 0
    /\ reads = 0
    /\ okReads = 0
    /\ pubs = 0
    /\ totalPubs = 0
    /\ connects = 0
    /\ log = <<>>

(***************************************************************************)
(* SpecConv: a conversion function applied to one slice.                   *)
(***************************************************************************)
InitConv ==
    /\ pc = "input"
    /\ responseData \in Slices
    /\ converter = "none"
    /\ value = None
    /\ DecodeIdle
    /\ LoopIdle

ApplyConverter(conv) ==
    /\ pc = "input"
    /\ pc' = "converted"
    /\ converter' = conv
    /\ value' = Apply(conv, responseData)
    /\ UNCHANGED <<responseData, decodeVars, loopVars>>

ApplyTimestamp == ApplyConverter("convert_timestamp")
ApplyReal == ApplyConverter("convert_real")
ApplyWord == ApplyConverter("convert_word")

NextConv == ApplyTimestamp \/ ApplyReal \/ ApplyWord

SpecConv == InitConv /\ [][NextConv]_vars

(***************************************************************************)
(* SpecDecode: one module buffer decoded.                                  *)
(***************************************************************************)
InitDecode ==
    /\ pc = "input"
    /\ registers \in Buffers
    /\ result = None
    /\ ConvIdle
    /\ LoopIdle

DecodeStruct ==
    /\ pc = "input"
    /\ pc' = "decoded"
    /\ result' = convert_single_struct(registers)
    /\ UNCHANGED <<registers, convVars, loopVars>>

DecodeModule ==
    /\ pc = "input"
    /\ pc' = "decoded"
    /\ result' = convert_single_module(registers, DATA_LAYOUT)
    /\ UNCHANGED <<registers, convVars, loopVars>>

NextDecode == DecodeStruct \/ DecodeModule

SpecDecode == InitDecode /\ [][NextDecode]_vars

(***************************************************************************)
(* Spec: the read loop of main.py, from the first `while True`.            *)
(* The PLC and pymodbus are the environment: a read returns registers,     *)
(* returns an error response or raises ConnectionException, and takes a    *)
(* time that depends on the answer; a connect() succeeds or fails.                    *)
(***************************************************************************)
Interval == 5       \* args.interval, in ticks of the model's clock

PyInt(n) == PyIntValue(Normalize(<<n>>))

Registers(regs) == [kind |-> "registers", registers |-> regs]
ErrorResponse == [kind |-> "exception_response"]
isError(resp) == resp.kind = "exception_response"

\* the register lists a PLC may answer a request for n modules with:
\* the requested length, up to MaxExtra words less or more, one module less
ResponseLengths(n) ==
    {l \in {n * DATA_SIZE + e : e \in (0 - MaxExtra)..MaxExtra}
            \cup {(n - 1) * DATA_SIZE} : l >= 0}
Responses(n) ==
    {Pattern(seed, len) : seed \in Seeds, len \in ResponseLengths(n)}
\* ticks between timeA and timeB: an error response is the slow answer
ReadTicks(kind) == IF kind = "error" THEN 3 ELSE 1

LogEntry(level, msg) == [level |-> level, msg |-> msg]

Init ==
    /\ pc = "cycle"
    /\ modules \in 0..MaxModules
    /\ modbusConnected = TRUE
    /\ attempt = 0
    /\ response = None
    /\ dataset = [device |-> "plc", timestamp |-> 0, results |-> <<>>]
    /\ published = None
    /\ now = 0
    /\ startTime = 0
    /\ timeA = 0
    /\ timeB = 0
    /\ cycle = 0
    /\ reads = 0
    /\ okReads = 0
    /\ pubs = 0
    /\ totalPubs = 0
    /\ connects = 0
    /\ log = <<>>
    /\ ConvIdle
    /\ DecodeIdle

\* wait_next_cycle(start, duration): the time after the sleep
wait_next_cycle(start, duration) ==
    LET elapsed == now - start
        remaining == Max(0, duration - elapsed)
    IN now + remaining

\* startTime = time(); connect() again while the connection is lost
BeginCycle ==
    /\ pc = "cycle"
    /\ cycle < MaxCycles
    /\ startTime' = now
    /\ IF ~modbusConnected
       THEN /\ connects' = 1
            /\ \E connected \in BOOLEAN :
                  IF connected
                  THEN /\ log' = Append(log, LogEntry("info", "Reconnection to the PLC successful"))
                       /\ modbusConnected' = TRUE
                  ELSE UNCHANGED <<log, modbusConnected>>
       ELSE /\ connects' = 0
            /\ UNCHANGED <<log, modbusConnected>>
    /\ attempt' = 0
    /\ cycle' = cycle + 1
    /\ reads' = 0
    /\ okReads' = 0
    /\ pubs' = 0
    /\ pc' = "read"
    /\ UNCHANGED <<modules, response, dataset, published, now, timeA, timeB,
                   totalPubs, convVars, decodeVars>>

\* read_input_registers returns registers: the retry loop is left
ReadOk ==
    /\ pc = "read"
    /\ \E regs \in Responses(modules) : response' = Registers(regs)
    /\ timeA' = now
    /\ timeB' = now + ReadTicks("ok")
    /\ now' = now + ReadTicks("ok")
    /\ reads' = reads + 1
    /\ okReads' = okReads + 1
    /\ pc' = "slice"
    /\ UNCHANGED <<modules, modbusConnected, attempt, dataset, published,
                   startTime, cycle, pubs, totalPubs, connects, log, convVars, decodeVars>>

\* read_input_registers returns an error response: one more attempt, then
\* the cycle is skipped
ReadError ==
    /\ pc = "read"
    /\ response' = ErrorResponse
    /\ timeA' = now
    /\ timeB' = now + ReadTicks("error")
    /\ now' = now + ReadTicks("error")
    /\ reads' = reads + 1
    /\ IF attempt + 1 < 2
       THEN /\ attempt' = attempt + 1
            /\ UNCHANGED <<pc, log>>
       ELSE /\ log' = Append(log, LogEntry("warning", "Modbus response is an error"))
            /\ pc' = "wait"
            /\ UNCHANGED attempt
    /\ UNCHANGED <<modules, modbusConnected, dataset, published, startTime,
                   cycle, okReads, pubs, totalPubs, connects, convVars, decodeVars>>

\* the handler without its `if modbusConnected`: the error is logged each time
ReadRaises_AlwaysLogs ==
    /\ pc = "read"
    /\ timeA' = now
    /\ now' = now + ReadTicks("exception")
    /\ reads' = reads + 1
    /\ log' = Append(log, LogEntry("error", "Connection to the PLC lost"))
    /\ modbusConnected' = FALSE
    /\ pc' = "wait"
    /\ UNCHANGED <<modules, attempt, response, dataset, published, startTime,
                   timeB, cycle, okReads, pubs, totalPubs, connects, convVars,
                   decodeVars>>

\* read_input_registers raises ConnectionException
ReadRaises ==
    /\ pc = "read"
    /\ timeA' = now
    /\ now' = now + ReadTicks("exception")
    /\ reads' = reads + 1
    /\ IF modbusConnected
       THEN /\ log' = Append(log, LogEntry("error", "Connection to the PLC lost"))
            /\ modbusConnected' = FALSE
       ELSE UNCHANGED <<log, modbusConnected>>
    /\ pc' = "wait"
    /\ UNCHANGED <<modules, attempt, response, dataset, published, startTime,
                   timeB, cycle, okReads, pubs, totalPubs, connects, convVars, decodeVars>>

\* response.registers[i : i + DATA_SIZE]: the module index not scaled
ModuleSlice_Unscaled(regs, i) == PySlice(regs, i, i + DATA_SIZE)

\* response.registers[i * DATA_SIZE : (i + 1) * DATA_SIZE]
ModuleSlice(regs, i) == PySlice(regs, i * DATA_SIZE, (i + 1) * DATA_SIZE)

\* result["index"] = i + 1
TagIndex_OneBased(res, i) == [res EXCEPT !.items = DictSet(@, "index", PyInt(i + 1))]

\* result["index"] = i
TagIndex(res, i) == [res EXCEPT !.items = DictSet(@, "index", PyInt(i))]

\* for i in range(0, args.modules): decode, tag, append; an exception of the
\* decoder leaves the loop with the results appended so far
RECURSIVE SliceLoop(_, _, _, _)
SliceLoop(regs, i, n, results) ==
    IF i >= n THEN [raised |-> FALSE, results |-> results]
    ELSE LET res == convert_single_module(ModuleSlice(regs, i), DATA_LAYOUT)
         IN IF IsError(res)
            THEN [raised |-> TRUE, results |-> results]
            ELSE SliceLoop(regs, i + 1, n, Append(results, TagIndex(res, i)))

\* where an exception other than KeyboardInterrupt leaves the main loop:
\* `try: while True: ... except KeyboardInterrupt:` does not catch it
UncaughtException == "crashed"

\* what the slicing loop makes of the response of this cycle
SliceOut == SliceLoop(response.registers, 0, modules, dataset.results)

\* the timestamp and the slicing loop
SliceModules ==
    /\ pc = "slice"
    /\ dataset' = [dataset EXCEPT !.timestamp = (timeA + timeB) \div 2,
                                  !.results = SliceOut.results]
    /\ pc' = IF SliceOut.raised THEN UncaughtException ELSE "publish"
    /\ UNCHANGED <<modules, modbusConnected, attempt, response, published, now,
                   startTime, timeA, timeB, cycle, reads, okReads, pubs, totalPubs,
                   connects, log, convVars, decodeVars>>

\* the clear() left out
ClearResults_Kept(results) == results

\* dataset["results"] after the publish
ClearResults(results) == <<>>

\* json.dumps(dataset), mqttClient.publish(MQTT_TOPIC, jsonStr, qos=2),
\* dataset["results"].clear().  The message keeps the dataset it serialises
\* and the cycle that published it.
Publish ==
    /\ pc = "publish"
    /\ published' = [kind |-> "message", topic |-> "modbus-mqtt/plc",
                      payload |-> dataset, qos |-> 2, cycle |-> cycle]
    /\ pubs' = pubs + 1
    /\ totalPubs' = totalPubs + 1
    /\ dataset' = [dataset EXCEPT !.results = ClearResults(@)]
    /\ pc' = "wait"
    /\ UNCHANGED <<modules, modbusConnected, attempt, response, now, startTime,
                   timeA, timeB, cycle, reads, okReads, connects, log, convVars, decodeVars>>

\* wait_next_cycle(startTime, args.interval), then the next `while True` round
Wait ==
    /\ pc = "wait"
    /\ now' = wait_next_cycle(startTime, Interval)
    /\ pc' = "cycle"
    /\ UNCHANGED <<modules, modbusConnected, attempt, response, dataset, published,
                   startTime, timeA, timeB, cycle, reads, okReads, pubs, totalPubs, connects, log,
                   convVars, decodeVars>>

\* except KeyboardInterrupt: close and sys.exit(0)
KeyboardInterrupt ==
    /\ pc \in {"cycle", "read", "slice", "publish", "wait"}
    /\ log' = Append(log, LogEntry("info", "Received keyboard interrupt"))
    /\ pc' = "exited"
    /\ UNCHANGED <<modules, modbusConnected, attempt, response, dataset, published,
                   now, startTime, timeA, timeB, cycle, reads, okReads, pubs, totalPubs, connects,
                   convVars, decodeVars>>

Next ==
    \/ BeginCycle
    \/ ReadOk
    \/ ReadError
    \/ ReadRaises
    \/ SliceModules
    \/ Publish
    \/ Wait
    \/ KeyboardInterrupt

Spec == Init /\ [][Next]_vars

(***************************************************************************)
(* SpecReconnect: the same loop with a PLC that stays reachable from cycle *)
(* ReachableFrom on: connect() succeeds and a read returns the registers   *)
(* asked for.  Before that cycle the PLC answers as in Spec.  The loop is  *)
(* sequential, a read and a sleep end, so it always takes its next step;   *)
(* only the user's interrupt is not bound to happen.                       *)
(***************************************************************************)
ReachableFrom == MaxCycles

\* a step of the loop while the PLC is reachable
ReachableStep ==
    /\ (pc = "cycle" /\ pc' = "read") => modbusConnected'
    /\ (pc = "read" /\ pc' # "exited") =>
          /\ pc' = "slice"
          /\ Len(response'.registers) = modules * DATA_SIZE

NextReconnect == Next /\ (cycle' >= ReachableFrom => ReachableStep)

\* a step of the loop itself other than the slicing, not the user's interrupt
LoopStep == pc # "slice" /\ NextReconnect /\ pc' # "exited"

\* the slicing loop ends: it returns or raises (SliceModules seen on pc alone;
\* from pc = "slice" no other step of Next leads to these two places)
SliceEnds == pc = "slice" /\ pc' \in {"publish", UncaughtException}

SpecReconnect ==
    Init /\ [][NextReconnect]_vars /\ WF_vars(LoopStep) /\ WF_pc(SliceEnds)

(***************************************************************************)
(* Properties of the decoder (SpecDecode).                                 *)
(***************************************************************************)
IsScalar(v) == v.kind \in {"int", "float"}
Decoded == pc = "decoded"
FullBuffer == Len(registers) = DATA_SIZE

\* C1: decoding a buffer of exactly the module size returns a mapping whose
\* keys are the layout's field names, one per descriptor and in layout order;
\* the value is a scalar for count = 1 and a list of count scalars otherwise.
C1_DecodeShape ==
    (Decoded /\ FullBuffer) =>
        /\ result.kind = "dict"
        /\ Keys(result.items) = [i \in 1..Len(DATA_LAYOUT) |-> DATA_LAYOUT[i].name]
        /\ \A i \in 1..Len(DATA_LAYOUT) :
              LET e == DATA_LAYOUT[i]
                  v == result.items[i].val
              IN /\ e.count = 1 => IsScalar(v)
                 /\ e.count > 1 =>
                       /\ v.kind = "list"
                       /\ Len(v.items) = e.count
                       /\ \A k \in 1..e.count : IsScalar(v.items[k])

C1_Witness ==
    /\ Decoded
    /\ FullBuffer
    /\ result.kind = "dict"
    /\ Len(result.items) = 6
    /\ Get(result.items, "voltage").kind = "list"
    /\ Get(result.items, "energy").kind = "float"

\* the words [p + k*w, p + (k+1)*w) of the buffer, counted from 0
Words(buf, p, w, k) == [j \in 1..w |-> buf[p + k * w + j]]

\* C2: element k of a repeated field at position p with wordsize w is the
\* converter applied to exactly the words [p + k*w, p + (k+1)*w) of the buffer,
\* in slice order; a field with count 1 is the converter applied to [p, p+w).
C2_SliceMapping ==
    (Decoded /\ FullBuffer /\ result.kind = "dict") =>
        \A i \in 1..Len(DATA_LAYOUT) :
            LET e == DATA_LAYOUT[i]
                v == Get(result.items, e.name)
            IN IF e.count = 1
               THEN v = Apply(e.converter, Words(registers, e.position, e.wordsize, 0))
               ELSE /\ v.kind = "list"
                    /\ Len(v.items) = e.count
                    /\ \A k \in 0..(e.count - 1) :
                          v.items[k + 1] =
                              Apply(e.converter,
                                    Words(registers, e.position, e.wordsize, k))

\* the second current is made of words 12 and 13 (the high one set to 0xFFFF)
\* and differs from its neighbours
C2_Witness ==
    /\ Decoded
    /\ FullBuffer
    /\ result.kind = "dict"
    /\ registers[13] = 3085
    /\ registers[14] = 65535
    /\ Get(result.items, "current").items[2] = PyFloat(1, 255, 8326157)
    /\ Get(result.items, "current").items[1] # Get(result.items, "current").items[2]
    /\ Get(result.items, "current").items[3] # Get(result.items, "current").items[2]

\* C3: decoding a buffer shorter than the module size (one word short, or any
\* shorter length down to the empty buffer) raises an error; it never returns
\* a mapping.
C3_ShortBufferFails ==
    (Decoded /\ Len(registers) < DATA_SIZE) => IsError(result)

C3_Witness ==
    /\ Decoded
    /\ Len(registers) = DATA_SIZE - 1
    /\ IsError(result)

(***************************************************************************)
(* Properties of the conversion functions (SpecConv).                      *)
(***************************************************************************)
Converted == pc = "converted"

\* the word width the layout declares for a conversion function
ExpectedWidth(conv) ==
    LET i == CHOOSE i \in 1..Len(STRUCT_CONTENTS) : STRUCT_CONTENTS[i].converter = conv
    IN STRUCT_CONTENTS[i].wordsize

\* C4 as claimed: a conversion function raises an error whenever the slice
\* length differs from its expected width, shorter or longer.
C4_LengthMismatchFails ==
    (Converted /\ Len(responseData) # ExpectedWidth(converter)) => IsError(value)

\* C4 as amended: a conversion function raises an error whenever the slice is
\* shorter than its expected width (it never pads); a longer slice is not
\* rejected: the value is that of the first width words, the rest is ignored.
C4_ShortFailsLongTruncates ==
    Converted =>
        LET w == ExpectedWidth(converter)
        IN /\ Len(responseData) < w => IsError(value)
           /\ Len(responseData) >= w =>
                 /\ ~IsError(value)
                 /\ value = Apply(converter, SubSeq(responseData, 1, w))
                 /\ converter = "convert_word" =>
                       value = PyIntValue(Normalize(<<responseData[1]>>))
                 /\ converter = "convert_timestamp" =>
                       value = PyIntValue(Normalize(<<responseData[1], responseData[2]>>))

C4_Witness ==
    /\ Converted
    /\ converter = "convert_timestamp"
    /\ responseData = <<1, 15, 16>>
    /\ value = PyIntValue(<<1, 15>>)

\* the 32-bit pattern of a float, as limbs
FloatBits(f) ==
    Normalize(<<f.fraction % WordBase,
                f.sign * 32768 + f.exponent * 128 + f.fraction \div WordBase>>)

\* the 32-bit quantity a two-word conversion assembled
Assembled(v) == IF v.kind = "float" THEN FloatBits(v) ELSE v.limbs

\* the number a limb sequence below 2^31 stands for
ToNat(x) == Limb(x, 1) + WordBase * Limb(x, 2)

\* C5: for words [w0, w1] the 32-bit quantity of the two-word conversions (the
\* result of convert_timestamp, the bit pattern convert_real reinterprets,
\* short hex strings zero-padded) is w1 * 2^16 + w0: the second word is the
\* more significant half, the quantity is in 0..2^32-1, and splitting it
\* low word first, high word second gives [w0, w1] back.
C5_LittleEndianWords ==
    (Converted /\ Len(responseData) = 2
        /\ converter \in {"convert_timestamp", "convert_real"}) =>
        LET w0 == responseData[1]
            w1 == responseData[2]
            q == Assembled(value)
        IN /\ ~IsError(value)
           /\ Len(q) <= 2
           /\ \A i \in 1..Len(q) : q[i] \in 0..(WordBase - 1)
           /\ Limb(q, 1) = w0
           /\ Limb(q, 2) = w1
           /\ q = Normalize(q)
           /\ w1 < 32768 => ToNat(q) = w1 * WordBase + w0
           /\ LongToWords(q) = <<w0, w1>>

\* 'f' is padded to '0000000f'
C5_Witness ==
    /\ Converted
    /\ converter = "convert_real"
    /\ responseData = <<15, 0>>
    /\ value = PyFloat(0, 0, 15)

(***************************************************************************)
(* Properties of the read loop (Spec).                                     *)
(***************************************************************************)
\* the slicing loop has run on the response of this cycle
Sliced == pc \in {"publish", UncaughtException}
RequestedSize == modules * DATA_SIZE

\* module i of a register list, decoded on its own and tagged
ExpectedModule(regs, i) ==
    LET res == convert_single_module(Words(regs, i * DATA_SIZE, DATA_SIZE, 0), DATA_LAYOUT)
    IN [res EXCEPT !.items = Append(@, Item("index", PyInt(i)))]

\* C6: for a response of exactly modules * 24 words the slicing loop produces
\* exactly modules results in increasing order; result i is the decode of the
\* words [i*24, (i+1)*24) alone and carries index i; with modules = 0 the
\* results list is empty.
C6_SlicePerModule ==
    (Sliced /\ Len(response.registers) = RequestedSize) =>
        /\ pc = "publish"
        /\ Len(dataset.results) = modules
        /\ \A i \in 0..(modules - 1) :
              dataset.results[i + 1] = ExpectedModule(response.registers, i)

C6_Witness ==
    /\ pc = "publish"
    /\ modules = 2
    /\ Len(response.registers) = 2 * DATA_SIZE
    /\ Len(dataset.results) = 2
    /\ Get(dataset.results[1].items, "index") = PyInt(0)
    /\ Get(dataset.results[2].items, "index") = PyInt(1)
    /\ Get(dataset.results[1].items, "busIndex") = PyInt(515)
    /\ Get(dataset.results[2].items, "busIndex") = PyInt(6683)

DecodeRaised ==
    /\ response.kind = "registers"
    /\ pc \notin {"read", "slice", "exited"}
    /\ SliceLoop(response.registers, 0, modules, <<>>).raised

\* C8: when decoding raises an error during a poll cycle the loop logs it,
\* skips the cycle without publishing and goes on to the next cycle; the
\* process does not leave the polling loop because of a decode error.
C8_DecodeErrorSkipsCycle ==
    DecodeRaised =>
        /\ pc \in {"wait", "cycle"}
        /\ pubs = 0
        /\ log # <<>>
        /\ log[Len(log)].level \in {"warning", "error"}

\* a message was published in the running cycle
PublishedNow == published.kind = "message" /\ published.cycle = cycle /\ pubs > 0

\* C9: the results list is empty at the start of every cycle, so a published
\* message holds exactly modules results, all decoded from the response read
\* in the cycle that published it; a cycle publishes no second message.
C9_FreshResultsEachCycle ==
    /\ pc \in {"cycle", "read", "slice"} => dataset.results = <<>>
    /\ pubs <= 1
    /\ pubs > 0 => PublishedNow
    /\ PublishedNow =>
          /\ response.kind = "registers"
          /\ Len(published.payload.results) = modules
          /\ \A i \in 0..(modules - 1) :
                published.payload.results[i + 1] = ExpectedModule(response.registers, i)

\* the second cycle has published its own registers
C9_Witness ==
    /\ pc = "wait"
    /\ modules = 1
    /\ cycle = 2
    /\ totalPubs = 2
    /\ PublishedNow
    /\ response.registers = Pattern(2, DATA_SIZE)
    /\ Get(published.payload.results[1].items, "busIndex") = PyInt(17769)
    /\ dataset.results = <<>>

\* the cycle is over: it waits, or it threw
CycleOver == pc \in {"wait", UncaughtException}

\* C10: in every cycle the registers are read at most twice, a second time
\* only after an error response; at most one message is published; a message
\* is published in a cycle if and only if one attempt returned a non-error
\* response; a cycle that ends with an error response or a
\* ConnectionException publishes nothing and goes on to wait.
C10_PublishIffRead ==
    /\ reads <= 2
    /\ pubs <= 1
    /\ okReads <= 1
    /\ (reads = 2 /\ okReads = 1 /\ pc = "slice") => attempt = 1
    /\ CycleOver => (pubs = 1 <=> okReads = 1)
    /\ (CycleOver /\ okReads = 0) => (pubs = 0 /\ pc = "wait")

(***************************************************************************)
(* Properties of the reconnection (SpecReconnect).                         *)
(***************************************************************************)
LostEntry == LogEntry("error", "Connection to the PLC lost")
ReconnectedEntry == LogEntry("info", "Reconnection to the PLC successful")

\* between two "connection lost" errors of the log lies a reconnection
LoggedOncePerEpisode ==
    \A i \in 1..Len(log) : \A j \in (i + 1)..Len(log) :
        (log[i] = LostEntry /\ log[j] = LostEntry) =>
            \E k \in (i + 1)..(j - 1) : log[k] = ReconnectedEntry

\* the ConnectionException handler: the loop goes on to wait, the flag is
\* false, the error is logged if and only if the flag was true
HandlerStep ==
    ReadRaises =>
        /\ pc' = "wait"
        /\ ~modbusConnected'
        /\ modbusConnected => log' = Append(log, LostEntry)
        /\ ~modbusConnected => log' = log

\* a cycle begins with one connect() exactly when the flag is false
ReconnectStep ==
    BeginCycle => (connects' = 1 <=> ~modbusConnected)

\* the flag turns true only in a cycle start whose connect() succeeded
OnlyAfterConnect ==
    (~modbusConnected /\ modbusConnected') =>
        /\ pc = "cycle"
        /\ pc' = "read"
        /\ connects' = 1
        /\ log' = Append(log, ReconnectedEntry)

\* a cycle of the reachable PLC is about to begin with the flag false
AwaitingReconnect ==
    /\ pc = "cycle"
    /\ ~modbusConnected
    /\ cycle + 1 >= ReachableFrom
    /\ cycle < MaxCycles

\* the flag is true again and the cycle has published
Resumed == modbusConnected /\ pubs = 1 /\ PublishedNow

\* C11: after a ConnectionException during a read the loop does not exit:
\* modbusConnected becomes false, the "connection lost" error is logged once
\* per disconnection episode, every following cycle that starts with
\* modbusConnected false attempts a connect(), modbusConnected becomes true
\* again only after a connect() that succeeded, and once the PLC stays
\* reachable, reading and publishing resume (unless the user interrupts).
C11_ReconnectResumes ==
    /\ []LoggedOncePerEpisode
    /\ [][HandlerStep]_vars
    /\ [][ReconnectStep]_vars
    /\ [][OnlyAfterConnect]_vars
    /\ [](AwaitingReconnect => <>(Resumed \/ pc = "exited"))

\* the connection was lost in an earlier cycle; the cycle from which the PLC
\* stays reachable began with one connect(), reconnected, read once and
\* published
C11_Witness ==
    /\ pc = "wait"
    /\ cycle = ReachableFrom
    /\ log = <<LostEntry, ReconnectedEntry>>
    /\ connects = 1
    /\ reads = 1
    /\ Resumed

====
